---- MODULE Spec2Model ----
(***************************************************************************)
(* A model of interpretdl/interpreter/abc_interpreter.py (Interpreter and  *)
(* its three *_build_predict_fn* specialisations) and of                   *)
(* interpretdl/interpreter/smooth_grad.py (SmoothGradInterpreter).         *)
(*                                                                         *)
(* Strings that the code slices (device[:3]) or searches ("batchnorm" in   *)
(* cls.lower()) are sequences of one-character strings.  Python is         *)
(* single-threaded here, so a call is one atomic step, except              *)
(* SmoothGradInterpreter.interpret, which is split at its sampling loop.   *)
(***************************************************************************)
EXTENDS Integers, Sequences, FiniteSets, TLC

\* ------------------------------------------------------------------------
\* Bounds of the model
\* ------------------------------------------------------------------------
\* number of predict functions that may be built in one behaviour
MaxBuilds == 2
\* number of forward hooks that may be left registered on one sublayer
MaxHooks == 1
\* largest n_samples passed to SmoothGradInterpreter.interpret
MaxSamples == 3

\* ------------------------------------------------------------------------
\* Strings as character sequences
\* ------------------------------------------------------------------------
CPU  == <<"c", "p", "u">>
GPU  == <<"g", "p", "u">>
GPU0 == <<"g", "p", "u", ":", "0">>
GPU1 == <<"g", "p", "u", ":", "1">>
GPUX == <<"g", "p", "u", "x">>
TPU  == <<"t", "p", "u">>
CP   == <<"c", "p">>

\* the device strings a caller passes to a constructor
Devices == {CPU, GPU0, GPUX, TPU, CP}

Min(a, b) == IF a < b THEN a ELSE b

\* device[:3]
Prefix3(d) == SubSeq(d, 1, Min(3, Len(d)))

\* the values a caller passes for the legacy flag use_cuda
UseCudaValues == {"True", "False", "1", "0", "None"}

\* use_cuda in [True, False]   (1 == True and 0 == False in Python)
InTrueFalse(u) == u \in {"True", "False", "1", "0"}

\* truth value of use_cuda in `if use_cuda and ...`
Truthy(u) == u \in {"True", "1"}

\* str.lower() on the characters that occur in the class names below
LowerChar(c) ==
    CASE c = "B" -> "b"
      [] c = "N" -> "n"
      [] c = "D" -> "d"
      [] c = "C" -> "c"
      [] c = "L" -> "l"
      [] OTHER   -> c

Lower(s) == [k \in 1..Len(s) |-> LowerChar(s[k])]

\* sub in s   (substring test)
Contains(s, sub) ==
    \E k \in 0..(Len(s) - Len(sub)) : SubSeq(s, k + 1, k + Len(sub)) = sub

BATCHNORM == <<"b", "a", "t", "c", "h", "n", "o", "r", "m">>
DROPOUT   == <<"d", "r", "o", "p", "o", "u", "t">>

\* ------------------------------------------------------------------------
\* The model collaborator (a paddle.nn.Layer or a compatible object)
\* ------------------------------------------------------------------------
\* names yielded by paddle_model.named_sublayers()
LayerNames == {"conv", "bn", "drop", "fc"}

\* v.__class__.__name__ of each sublayer
ClassName(l) ==
    CASE l = "conv" -> <<"C", "o", "n", "v", "2", "D">>
      [] l = "bn"   -> <<"B", "a", "t", "c", "h", "N", "o", "r", "m", "2", "D">>
      [] l = "drop" -> <<"D", "r", "o", "p", "o", "u", "t">>
      [] OTHER      -> <<"L", "i", "n", "e", "a", "r">>

\* the flags of freshly constructed sublayers: batch statistics in use, and
\* a drop probability of 0.5 (kept in tenths) on the Dropout layer
InitLayers ==
    [l \in LayerNames |->
        [ugs |-> FALSE, p |-> IF l = "drop" THEN 5 ELSE 0]]

\* mutation: the loop leaves the dropout layers as they are
Neutralize_KeepsDropout(layers) ==
    [l \in LayerNames |->
        [ugs |-> IF Contains(Lower(ClassName(l)), BATCHNORM)
                 THEN TRUE ELSE layers[l].ugs,
         p   |-> layers[l].p]]

\* the loop over named_sublayers() that neutralises batchnorm and dropout
Neutralize(layers) ==
    [l \in LayerNames |->
        [ugs |-> IF Contains(Lower(ClassName(l)), BATCHNORM)
                 THEN TRUE ELSE layers[l].ugs,
         p   |-> IF Contains(Lower(ClassName(l)), DROPOUT)
                 THEN 0 ELSE layers[l].p]]

\* mutation: the build does not call paddle_model.train()
TrainNeutralized_ModeKept(m) == [m EXCEPT !.layers = Neutralize(m.layers)]

\* paddle_model.train() followed by the neutralisation loop
TrainNeutralized(m) ==
    [m EXCEPT !.training = TRUE, !.layers = Neutralize(m.layers)]

\* paddle_model.eval()
Eval(m) == [m EXCEPT !.training = FALSE]

\* ------------------------------------------------------------------------
\* Predict functions
\* ------------------------------------------------------------------------
\* self.predict_fn = None
None == [tag |-> "None", id |-> 0, kind |-> "-", opt |-> "-"]

\* a value assigned to predict_fn that is neither None nor callable
NotCallable == [tag |-> "NotCallable", id |-> 0, kind |-> "-", opt |-> "-"]

\* the closure object created by one execution of `def predict_fn`
Closure(id, kind, opt) == [tag |-> "fn", id |-> id, kind |-> kind, opt |-> opt]

\* mutation: the callable check accepts every value
Callable_Always(f) == TRUE

\* callable(self.predict_fn)
Callable(f) == f.tag = "fn"

Kinds == {"IG", "IO", "IL"}

\* the option values a caller passes to _build_predict_fn of each class
Options(kind) ==
    CASE kind = "IG" -> {"loss", "logit", "probability", "foo"}
      [] kind = "IO" -> {"logit", "probability", "foo"}
      [] OTHER       -> {"None", "bn", "missing"}

\* mutation: the option is not validated when the function is built
OptionAccepted_Unchecked(kind, opt) == TRUE

\* the assertion on the option at the head of the build branch
OptionAccepted(kind, opt) ==
    CASE kind = "IG" -> opt \in {"loss", "logit", "probability"}
      [] kind = "IO" -> opt \in {"logit", "probability"}
      [] OTHER       -> opt # "None"

VARIABLES
    cuda,        \* paddle.is_compiled_with_cuda()
    place,       \* the device last given to paddle.set_device
    model,       \* the one model object every interpreter refers to
    hooks,       \* number of forward-post hooks registered on each sublayer
    its,         \* the abc interpreters, by name
    nextId,      \* identity of the next closure object
    last,        \* the call made by the last step and how it ended
    sg,          \* the SmoothGradInterpreter instance
    fr           \* the frame of its interpret call (locals and position)

vars == <<cuda, place, model, hooks, its, nextId, last, sg, fr>>

\* ------------------------------------------------------------------------
\* Initial state
\* ------------------------------------------------------------------------
Interps == {"a", "b"}

NoInterp == [kind |-> "none", device |-> <<>>, predict_fn |-> None]

\* the shape of a data argument: len(data.shape) and data.shape[0]
NoData == [rank |-> 0, bsz |-> 0]

\* a labels argument: its Python type and len(labels)
NoneLabels == [type |-> "None", len |-> 0]

\* the arguments of a predict_fn call, when the step is not such a call
NoArgs == [data |-> NoData, labels |-> NoneLabels]

\* what a predict_fn call returned, when the step returned nothing
NoRet == [of |-> "-", data |-> NoData, labels |-> NoneLabels,
          drop |-> 0, stats |-> "-"]

NoCall ==
    [op |-> "none", who |-> "-", outcome |-> "ok", rebuild |-> FALSE,
     opt |-> "-", assigns |-> 0, dev |-> <<>>, flag |-> "-",
     args |-> NoArgs, fwd |-> 0, bwd |-> 0, ret |-> NoRet]

\* no SmoothGradInterpreter instance exists
NoSG == [made |-> FALSE, use_cuda |-> "-", paddle_prepared |-> FALSE,
         predict_fn |-> None]

\* labels = None
NoLabels == [shape |-> "none", v |-> <<>>]

\* no interpret call has been made
IdleFrame ==
    [pc |-> "idle", orig |-> <<>>, supplied |-> NoLabels, na |-> 0, n |-> 0,
     visual |-> FALSE, data |-> <<>>, labels |-> NoLabels, stds |-> <<>>,
     total |-> <<>>, i |-> 0, noise |-> <<>>, noised |-> <<>>,
     passed |-> NoLabels, grads |-> <<>>, pre |-> 0, calls |-> 0,
     shown |-> 0, result |-> <<>>]

\* what the model object offers to hasattr(paddle_model, ...)
ModelCaps == {{"forward", "backward"}, {"forward"}}

InitCommon ==
    /\ cuda \in BOOLEAN
    /\ place = IF cuda THEN GPU0 ELSE CPU
    /\ \E t \in BOOLEAN, c \in ModelCaps :
          model = [training |-> t, layers |-> InitLayers, caps |-> c]
    /\ hooks = [l \in LayerNames |-> 0]
    /\ its = [i \in Interps |-> NoInterp]
    /\ nextId = 1
    /\ last = NoCall
    /\ sg = NoSG
    /\ fr = IdleFrame

Init == InitCommon

\* ------------------------------------------------------------------------
\* Interpreter.__init__ and the constructors of the three subclasses
\* ------------------------------------------------------------------------
\* mutation: `or` in place of `and` in the test of the legacy flag
StoredDevice_Or(device, use_cuda) ==
    IF InTrueFalse(use_cuda)
    THEN IF Truthy(use_cuda) \/ Prefix3(device) = GPU THEN device ELSE CPU
    ELSE device

\* mutation: the legacy flag is ignored
StoredDevice_NoFlag(device, use_cuda) == device

\* the device that Interpreter.__init__ stores
StoredDevice(device, use_cuda) ==
    IF InTrueFalse(use_cuda)
    THEN IF Truthy(use_cuda) /\ Prefix3(device) = GPU THEN device ELSE CPU
    ELSE device

\* mutation: the device is asserted after the legacy flag has replaced it
DeviceAccepted_AfterFlag(device, use_cuda) ==
    Prefix3(StoredDevice(device, use_cuda)) \in {CPU, GPU}

\* assert device[:3] in ['cpu', 'gpu'], the first statement of
\* Interpreter.__init__: use_cuda has not been looked at yet
DeviceAccepted(device, use_cuda) == Prefix3(device) \in {CPU, GPU}

\* the hasattr assertion that follows Interpreter.__init__ in a subclass
CapsAccepted(kind, caps) ==
    IF kind = "IG" THEN {"forward", "backward"} \subseteq caps
    ELSE "forward" \in caps

Construct(i, kind, device, use_cuda) ==
    /\ its[i].kind = "none"
    /\ LET ok == /\ DeviceAccepted(device, use_cuda)
                 /\ CapsAccepted(kind, model.caps)
       IN /\ its' = IF ok
                    THEN [its EXCEPT ![i] =
                            [kind |-> kind,
                             device |-> StoredDevice(device, use_cuda),
                             predict_fn |-> None]]
                    ELSE its
          /\ last' = [NoCall EXCEPT !.op = "construct", !.who = i,
                        !.outcome = IF ok THEN "ok" ELSE "AssertionError",
                        !.opt = kind, !.dev = device, !.flag = use_cuda]
    /\ UNCHANGED <<cuda, place, model, hooks, nextId, sg, fr>>

\* ------------------------------------------------------------------------
\* _build_predict_fn of the three subclasses
\* ------------------------------------------------------------------------
\* mutation: the cache is not consulted
NeedsBuild_Always(pfn, rebuild) == TRUE

\* if self.predict_fn is None or rebuild:
NeedsBuild(pfn, rebuild) == pfn = None \/ rebuild

\* mutation: the build keeps the stored device on a runtime without cuda
ResolvedDevice_NoFallback(device) == device

\* the fallback to "cpu" when paddle is not compiled with cuda
ResolvedDevice(device) ==
    IF ~cuda /\ Prefix3(device) = GPU THEN CPU ELSE device

\* whether paddle.set_device(d) returns (it raises ValueError otherwise)
SetDeviceOk(d) == d = CPU \/ (cuda /\ d \in {GPU, GPU0, GPU1})

\* the mode switch of the build branch: train() and neutralisation for the
\* input-gradient class, eval() for the other two
SwitchMode(kind, m) == IF kind = "IG" THEN TrainNeutralized(m) ELSE Eval(m)

BuildPredictFn(i, kind, rebuild, opt) ==
    LET me  == its[i]
        dev == ResolvedDevice(me.device)
        res == [NoCall EXCEPT !.op = "build", !.who = i,
                  !.rebuild = rebuild, !.opt = opt, !.dev = me.device]
    IN
    /\ me.kind = kind
    /\ (me.predict_fn # NotCallable /\ NeedsBuild(me.predict_fn, rebuild))
          => nextId <= MaxBuilds
    /\ IF me.predict_fn # None /\ ~Callable(me.predict_fn)
       THEN \* assert callable(self.predict_fn)
            /\ last' = [res EXCEPT !.outcome = "AssertionError"]
            /\ UNCHANGED <<place, model, its, nextId>>
       ELSE IF ~NeedsBuild(me.predict_fn, rebuild)
       THEN /\ last' = res
            /\ UNCHANGED <<place, model, its, nextId>>
       ELSE IF ~OptionAccepted(kind, opt)
       THEN /\ last' = [res EXCEPT !.outcome = "AssertionError"]
            /\ UNCHANGED <<place, model, its, nextId>>
       ELSE IF ~SetDeviceOk(dev)
       THEN \* self.device is already corrected when set_device raises
            /\ last' = [res EXCEPT !.outcome = "ValueError"]
            /\ its' = [its EXCEPT ![i].device = dev]
            /\ UNCHANGED <<place, model, nextId>>
       ELSE /\ place' = dev
            /\ model' = SwitchMode(kind, model)
            /\ its' = [its EXCEPT ![i].device = dev,
                                   ![i].predict_fn = Closure(nextId, kind, opt)]
            /\ nextId' = nextId + 1
            /\ last' = [res EXCEPT !.assigns = 1]
    /\ UNCHANGED <<cuda, hooks, sg, fr>>

BuildIG(i, rebuild, gradient_of) == BuildPredictFn(i, "IG", rebuild, gradient_of)

BuildIO(i, rebuild, output) == BuildPredictFn(i, "IO", rebuild, output)

BuildIL(i, rebuild, target_layer) == BuildPredictFn(i, "IL", rebuild, target_layer)

\* a caller assigns a non-callable value to the public attribute predict_fn
Corrupt(i) ==
    /\ its[i].kind # "none"
    /\ its[i].predict_fn # NotCallable
    /\ its' = [its EXCEPT ![i].predict_fn = NotCallable]
    /\ last' = [NoCall EXCEPT !.op = "corrupt", !.who = i]
    /\ UNCHANGED <<cuda, place, model, hooks, nextId, sg, fr>>

\* ------------------------------------------------------------------------
\* The predict function built by IntermediateLayerInterpreter
\* ------------------------------------------------------------------------
\* the sublayers on which a call registers its hook
HookTargets(target_layer) == {l \in LayerNames : l = target_layer}

\* h.remove() for every handle in hooks
RemoveHooks(hk, targets) ==
    [l \in LayerNames |-> IF l \in targets THEN hk[l] - 1 ELSE hk[l]]

CallIL(i, forwardRaises) ==
    LET me      == its[i]
        targets == HookTargets(me.predict_fn.opt)
        reg     == [l \in LayerNames |->
                      IF l \in targets THEN hooks[l] + 1 ELSE hooks[l]]
        res     == [NoCall EXCEPT !.op = "call", !.who = i, !.opt = "IL"]
    IN
    /\ Callable(me.predict_fn)
    /\ me.predict_fn.kind = "IL"
    /\ \A l \in LayerNames : hooks[l] < MaxHooks
    /\ IF Cardinality(targets) # 1
       THEN \* assert len(hooks) == 1
            /\ hooks' = reg
            /\ last' = [res EXCEPT !.outcome = "AssertionError"]
       ELSE IF forwardRaises
       THEN \* paddle.to_tensor or the forward pass raises
            /\ hooks' = reg
            /\ last' = [res EXCEPT !.outcome = "Exception"]
       ELSE /\ hooks' = RemoveHooks(reg, targets)
            /\ last' = res
    /\ UNCHANGED <<cuda, place, model, its, nextId, sg, fr>>

\* ------------------------------------------------------------------------
\* The predict function built by InputGradientInterpreter
\* ------------------------------------------------------------------------
\* the data batches a caller passes: [bs, h, w, 3], or one image without
\* the batch axis
IGData == {[rank |-> 4, bsz |-> 2], [rank |-> 3, bsz |-> 2]}

\* the labels a caller passes: None, a list, a tuple
IGLabels ==
    {NoneLabels, [type |-> "list", len |-> 2], [type |-> "list", len |-> 1],
     [type |-> "tuple", len |-> 2]}

\* the masks a dropout layer can draw in one forward pass
Masks == {0, 1}

\* mutation: the labels are not compared with the batch
IGArgsAccepted_LabelsUnchecked(data, labels) == data.rank = 4

\* the two assertions at the head of predict_fn
IGArgsAccepted(data, labels) ==
    /\ data.rank = 4
    /\ \/ labels.type = "None"
       \/ (labels.type \in {"list", "ndarray"} /\ labels.len = data.bsz)

\* a forward pass draws a dropout mask: train mode and a positive p
DropoutActive(m) ==
    /\ m.training
    /\ \E l \in LayerNames :
          Contains(Lower(ClassName(l)), DROPOUT) /\ m.layers[l].p > 0

\* a forward pass normalises with the statistics of the batch
BatchStatistics(m) ==
    /\ m.training
    /\ \E l \in LayerNames :
          Contains(Lower(ClassName(l)), BATCHNORM) /\ ~m.layers[l].ugs

\* what predict_fn returns, as the term it is computed from: the quantity
\* differentiated, the data, the labels (the predictions when None was
\* passed), the dropout mask drawn and the statistics batch normalisation
\* used
IGResult(gradient_of, data, labels, m, mask) ==
    [of     |-> gradient_of,
     data   |-> data,
     labels |-> IF labels.type = "None"
                THEN [type |-> "preds", len |-> data.bsz] ELSE labels,
     drop   |-> IF DropoutActive(m) THEN mask ELSE 0,
     stats  |-> IF BatchStatistics(m) THEN "batch" ELSE "global"]

CallIG(i, data, labels, mask, forwardRaises) ==
    LET me   == its[i]
        args == [data |-> data, labels |-> labels]
        \* the step before was a returning call of the same function with
        \* the same arguments
        again == /\ last.op = "call" /\ last.opt = "IG" /\ last.who = i
                 /\ last.outcome = "ok" /\ last.args = args
        res  == [NoCall EXCEPT !.op = "call", !.who = i, !.opt = "IG",
                               !.args = args,
                               !.flag = IF again THEN "again" ELSE "-"]
    IN
    /\ Callable(me.predict_fn)
    /\ me.predict_fn.kind = "IG"
    /\ (mask # 0) => DropoutActive(model)
    /\ forwardRaises => mask = 0
    /\ IF ~IGArgsAccepted(data, labels)
       THEN \* one of the two assertions fails
            /\ ~forwardRaises
            /\ last' = [res EXCEPT !.outcome = "AssertionError"]
       ELSE IF forwardRaises
       THEN \* paddle.to_tensor or the forward pass raises
            last' = [res EXCEPT !.outcome = "Exception", !.fwd = 1]
       ELSE last' = [res EXCEPT !.fwd = 1, !.bwd = 1,
                                !.ret = IGResult(me.predict_fn.opt, data,
                                                 labels, model, mask)]
    /\ UNCHANGED <<cuda, place, model, hooks, its, nextId, sg, fr>>

Next ==
    \/ \E i \in Interps, k \in Kinds, d \in Devices, u \in UseCudaValues :
          Construct(i, k, d, u)
    \/ \E i \in Interps, r \in BOOLEAN, o \in Options("IG") : BuildIG(i, r, o)
    \/ \E i \in Interps, r \in BOOLEAN, o \in Options("IO") : BuildIO(i, r, o)
    \/ \E i \in Interps, r \in BOOLEAN, o \in Options("IL") : BuildIL(i, r, o)
    \/ \E i \in Interps : Corrupt(i)
    \/ \E i \in Interps, f \in BOOLEAN : CallIL(i, f)
    \/ \E i \in Interps, d \in IGData, l \in IGLabels, k \in Masks,
          f \in BOOLEAN : CallIG(i, d, l, k, f)

Spec == Init /\ [][Next]_vars

\* ------------------------------------------------------------------------
\* float32 arithmetic of the accumulator
\* ------------------------------------------------------------------------
\* A float32 number is kept as an integer multiple of a fixed power of two.
\* The values used are 0, small integers, or at least 2^23 in magnitude, so
\* the unit is never coarser than the spacing of float32 at that magnitude
\* and rounding to 24 significant bits is exact integer arithmetic.

\* 2^24: a float32 significand has 24 bits
MantLimit == 16777216

\* the spacing of float32 numbers at magnitude x: the least power of two u
\* with x < 2^24 * u
RECURSIVE UlpFrom(_, _)
UlpFrom(x, u) == IF x < MantLimit * u THEN u ELSE UlpFrom(x, 2 * u)

\* num/den rounded to the nearest multiple of u, ties to the even multiple
RoundRatio(num, den, u) ==
    LET k == num \div (den * u)
        r == num - k * den * u
    IN IF 2 * r < den * u THEN k * u
       ELSE IF 2 * r > den * u THEN (k + 1) * u
       ELSE IF k % 2 = 0 THEN k * u ELSE (k + 1) * u

\* round-to-nearest-even of a non-negative number to float32
RoundMag(x) == RoundRatio(x, 1, UlpFrom(x, 1))

FlRound(x) == IF x < 0 THEN 0 - RoundMag(0 - x) ELSE RoundMag(x)

\* a + b in float32
FlAdd(a, b) == FlRound(a + b)

\* t / n in float32, for t >= 0 and an integer n >= 1
FlDivN(t, n) == RoundRatio(t, n, UlpFrom(t \div n, 1))

\* ------------------------------------------------------------------------
\* Batches, labels and the model's forward and backward pass
\* ------------------------------------------------------------------------
\* the positions of one image's values
Pixels == 1..2

\* the images after preprocessing: one constant, one not
Images == {<<0, 0>>, <<0, 1>>}

BatchSizes == {1, 2}

Batches == UNION {[1..b -> Images] : b \in BatchSizes}

Classes == {0, 1}

\* the labels argument of interpret: None or one label per image
LabelArgs(b) == {NoLabels} \cup {[shape |-> "flat", v |-> l] : l \in [1..b -> Classes]}

\* noise_amount
NoiseAmounts == {0, 1}

\* np.array(labels).reshape((len(imgs), 1))
Column(labels) == [shape |-> "col", v |-> labels.v]

\* argmax of the model's output for one image
Pred(img) == (img[1] + img[2]) % 2

\* the gradient of the model's probability of class c with respect to the
\* values of image img: one float32 number per value
Jac(img, c) ==
    [p \in Pixels |->
        CASE (img[p] + c + p) % 3 = 0 -> 0
          [] (img[p] + c + p) % 3 = 1 -> 33554432
          [] OTHER                    -> 48000008]

\* element-wise a + b on images and on batches
AddImage(a, b) == [p \in Pixels |-> FlAdd(a[p], b[p])]

AddBatch(a, b) == [j \in DOMAIN a |-> AddImage(a[j], b[j])]

\* np.zeros_like(data)
ZerosLike(data) == [j \in DOMAIN data |-> [p \in Pixels |-> 0]]

\* the sum over i = 1..k of the gradients of class labels[i] for image img
RECURSIVE SumOverLabels(_, _, _)
SumOverLabels(img, lv, k) ==
    IF k = 0 THEN [p \in Pixels |-> 0]
    ELSE AddImage(SumOverLabels(img, lv, k - 1), Jac(img, lv[k]))

\* the predict function that _paddle_prepare defines: (gradients, labels).
\* With labels of shape (B,) the one-hot product pairs image j with
\* labels[j]; with labels of shape (B, 1) the one-hot tensor has shape
\* (B, 1, C), the product with the (B, C) output broadcasts to (B, B, C) and
\* the differentiated target sums the output of image j at every label.
SGPredict(data, labels) ==
    LET lab == IF labels = NoLabels
               THEN [shape |-> "flat", v |-> [j \in DOMAIN data |-> Pred(data[j])]]
               ELSE labels
    IN [gradients |->
            [j \in DOMAIN data |->
                IF lab.shape = "col"
                THEN SumOverLabels(data[j], lab.v, Len(lab.v))
                ELSE Jac(data[j], lab.v[j])],
        labels |-> lab]

Max2(a, b) == IF a > b THEN a ELSE b

\* noise_amount * (np.max(data, axis) - np.min(data, axis)), one per image
Stds(data, na) ==
    [j \in DOMAIN data |->
        na * (Max2(data[j][1], data[j][2]) - Min(data[j][1], data[j][2]))]

\* the tensors np.random.normal(0.0, std, shape) can return for one image
NoiseImages(std) ==
    IF std = 0 THEN {<<0, 0>>} ELSE {<<1, -1>>, <<-1, 0>>, <<0, 1>>}

\* every noise batch of every batch size
AllNoiseBatches ==
    UNION {[1..b -> NoiseImages(0) \cup NoiseImages(1)] : b \in BatchSizes}

\* the noise batches that can be drawn for the standard deviations stds
NoiseBatches(stds) ==
    {nb \in AllNoiseBatches :
        /\ DOMAIN nb = DOMAIN stds
        /\ \A j \in DOMAIN stds : nb[j] \in NoiseImages(stds[j])}

\* ------------------------------------------------------------------------
\* SmoothGradInterpreter
\* ------------------------------------------------------------------------
\* SmoothGradInterpreter(paddle_model, use_cuda, model_input_shape): the first
\* statement calls Interpreter.__init__(self) without the three arguments it
\* requires, which raises TypeError before any field is assigned
SGConstruct(use_cuda) ==
    /\ ~sg.made
    /\ last' = [NoCall EXCEPT !.op = "sg_construct", !.outcome = "TypeError",
                  !.flag = use_cuda]
    /\ UNCHANGED <<cuda, place, model, hooks, its, nextId, sg, fr>>

\* the fields as the rest of the constructor assigns them, for an instance
\* whose construction gets past the base-class call (a subclass constructor
\* that passes the base-class arguments itself)
SGFields(use_cuda) ==
    /\ ~sg.made
    /\ sg' = [made |-> TRUE,
              use_cuda |-> IF ~cuda THEN "False" ELSE use_cuda,
              paddle_prepared |-> FALSE,
              predict_fn |-> None]
    /\ last' = [NoCall EXCEPT !.op = "sg_fields", !.flag = use_cuda]
    /\ UNCHANGED <<cuda, place, model, hooks, its, nextId, fr>>

\* mutation: the round lets the predict function derive the labels
RoundLabels_Rederived(f) == NoLabels

\* the labels argument of the predict call of a sampling round
RoundLabels(f) == f.labels

\* mutation: the round perturbs the batch of the previous round
PerturbBase_Cumulative(f) == IF f.calls = 0 THEN f.data ELSE f.noised

\* the batch to which a sampling round adds its noise
PerturbBase(f) == f.data

\* mutation: the gradients overwrite the accumulator
Accumulate_Overwrite(total, gradients) == gradients

\* total_gradients += gradients
Accumulate(total, gradients) == AddBatch(total, gradients)

\* total_gradients / n_samples
Average(total, n) ==
    [j \in DOMAIN total |-> [p \in Pixels |-> FlDivN(total[j][p], n)]]

\* mutation: every interpret call prepares the model again
MustPrepare_Always(s) == TRUE

\* if not self.paddle_prepared
MustPrepare(s) == ~s.paddle_prepared

\* mutation: the accumulator starts from the gradients of the call that
\* infers the labels
InitialTotal_WithPreCall(data, labels) ==
    IF labels = NoLabels
    THEN SGPredict(data, NoLabels).gradients ELSE ZerosLike(data)

\* total_gradients = np.zeros_like(data)
InitialTotal(data, labels) == ZerosLike(data)

\* mutation: the loop runs one round more
LoopContinues_OneMore(f) == f.i <= f.n

\* for i in range(n_samples): another round is due
LoopContinues(f) == f.i < f.n

\* mutation: the exception of a round is swallowed and the loop goes on
RoundFailure_Swallowed(f) == [f EXCEPT !.i = f.i + 1]

\* the predict function raises in a round: nothing in interpret catches
\* it, the call ends there
RoundFailure(f) == [f EXCEPT !.pc = "raised"]

\* interpret, up to the head of the sampling loop
SGBegin(data, labels, noise_amount, n_samples, visual, forwardRaises) ==
    LET dev      == IF sg.use_cuda = "True" THEN GPU0 ELSE CPU
        prepare  == MustPrepare(sg)
        f0       == [IdleFrame EXCEPT !.orig = data, !.supplied = labels,
                        !.na = noise_amount, !.n = n_samples,
                        !.visual = visual, !.data = data]
        \* the call before this one ended with an exception
        after    == IF last.op = "returned" /\ last.outcome = "Exception"
                    THEN "after_raise" ELSE "-"
        res      == [NoCall EXCEPT !.op = "interpret", !.flag = after]
        built    == [res EXCEPT !.assigns = IF prepare THEN 1 ELSE 0]
    IN
    /\ sg.made
    /\ fr.pc = "idle"
    /\ prepare => nextId <= MaxBuilds
    /\ IF prepare /\ ~SetDeviceOk(dev)
       THEN \* paddle.set_device raises in _paddle_prepare
            /\ fr' = [f0 EXCEPT !.pc = "raised"]
            /\ last' = [res EXCEPT !.outcome = "ValueError"]
            /\ UNCHANGED <<place, model, nextId, sg>>
       ELSE /\ place' = IF prepare THEN dev ELSE place
            /\ model' = IF prepare THEN TrainNeutralized(model) ELSE model
            /\ nextId' = IF prepare THEN nextId + 1 ELSE nextId
            /\ sg' = IF prepare
                     THEN [sg EXCEPT !.predict_fn = Closure(nextId, "SG", "probability"),
                                     !.paddle_prepared = TRUE]
                     ELSE sg
            /\ IF labels = NoLabels /\ forwardRaises
               THEN \* the call on the unperturbed data raises
                    /\ fr' = [f0 EXCEPT !.pc = "raised", !.pre = 1]
                    /\ last' = [built EXCEPT !.outcome = "Exception"]
               ELSE /\ fr' = [f0 EXCEPT
                                !.pc = "loop",
                                !.pre = IF labels = NoLabels THEN 1 ELSE 0,
                                !.labels = Column(IF labels = NoLabels
                                                  THEN SGPredict(data, NoLabels).labels
                                                  ELSE labels),
                                !.stds = Stds(data, noise_amount),
                                !.total = InitialTotal(data, labels)]
                    /\ last' = built
    /\ UNCHANGED <<cuda, hooks, its>>

\* one round of the sampling loop
SGRound(noise, forwardRaises) ==
    LET data_noised == AddBatch(PerturbBase(fr), noise)
        lab         == RoundLabels(fr)
        called      == [fr EXCEPT !.noise = noise, !.noised = data_noised,
                           !.passed = lab, !.calls = fr.calls + 1]
    IN
    /\ fr.pc = "loop"
    /\ LoopContinues(fr)
    /\ noise \in NoiseBatches(fr.stds)
    /\ IF forwardRaises
       THEN /\ fr' = RoundFailure(called)
            /\ last' = [NoCall EXCEPT !.op = "round", !.outcome = "Exception"]
       ELSE LET gradients == SGPredict(data_noised, lab).gradients IN
            /\ fr' = [called EXCEPT !.grads = gradients,
                                    !.total = Accumulate(fr.total, gradients),
                                    !.i = fr.i + 1]
            /\ last' = [NoCall EXCEPT !.op = "round"]
    /\ UNCHANGED <<cuda, place, model, hooks, its, nextId, sg>>

\* interpret, after the sampling loop: average, visualise, reach `return`
SGFinish ==
    /\ fr.pc = "loop"
    /\ ~LoopContinues(fr)
    /\ fr' = [fr EXCEPT !.pc = "done",
                        !.result = Average(fr.total, fr.n),
                        !.shown = IF fr.visual THEN Len(fr.orig) ELSE 0]
    /\ last' = [NoCall EXCEPT !.op = "finish"]
    /\ UNCHANGED <<cuda, place, model, hooks, its, nextId, sg>>

\* the call has returned its value or propagated its exception to the
\* caller: the frame is gone
SGReturn ==
    /\ fr.pc \in {"done", "raised"}
    /\ fr' = IdleFrame
    /\ last' = [NoCall EXCEPT !.op = "returned",
                  !.outcome = IF fr.pc = "raised" THEN "Exception" ELSE "ok"]
    /\ UNCHANGED <<cuda, place, model, hooks, its, nextId, sg>>

NextSG ==
    \/ \E u \in {"True", "False"} : SGConstruct(u)
    \/ \E u \in {"True", "False"} : SGFields(u)
    \/ \E d \in Batches, na \in NoiseAmounts, n \in 1..MaxSamples,
          v \in BOOLEAN :
          \E l \in LabelArgs(Len(d)) :
            \E f \in (IF l = NoLabels THEN BOOLEAN ELSE {FALSE}) :
              SGBegin(d, l, na, n, v, f)
    \/ \E f \in BOOLEAN, nb \in AllNoiseBatches : SGRound(nb, f)
    \/ SGFinish
    \/ SGReturn

SpecSG == Init /\ [][NextSG]_vars

\* ------------------------------------------------------------------------
\* An InputGradientInterpreter, an InputOutputInterpreter and a
\* SmoothGradInterpreter on one model
\* ------------------------------------------------------------------------
\* the batch of the interpret calls of this specification: one image
OneImage == <<<<0, 1>>>>

NextBuilds ==
    \/ \E d \in {CPU, GPU0}, u \in {"True", "None"} :
          \/ Construct("a", "IG", d, u)
          \/ Construct("b", "IO", d, u)
    \/ \E r \in BOOLEAN, o \in Options("IG") : BuildIG("a", r, o)
    \/ \E r \in BOOLEAN, o \in Options("IO") : BuildIO("b", r, o)
    \/ \E u \in {"True", "False"} : SGFields(u)
    \/ \E l \in LabelArgs(1) :
          \E f \in (IF l = NoLabels THEN BOOLEAN ELSE {FALSE}) :
            SGBegin(OneImage, l, 1, 1, FALSE, f)
    \/ \E f \in BOOLEAN, nb \in AllNoiseBatches : SGRound(nb, f)
    \/ SGFinish
    \/ SGReturn

SpecBuilds == Init /\ [][NextBuilds]_vars

\* ------------------------------------------------------------------------
\* Properties of the abc interpreters
\* ------------------------------------------------------------------------
\* the identities of the closure objects held by the interpreters
HeldIds == {its[i].predict_fn.id : i \in {j \in Interps : Callable(its[j].predict_fn)}}

\* C1: a build call made while predict_fn is cached and callable, with
\* rebuild false, leaves predict_fn (the same object), the stored device and
\* the model's mode and sublayer flags unchanged; a build call with
\* rebuild=True that returns installs a closure object that did not exist
\* before; every build call assigns predict_fn at most once.
C1_BuildIdempotentUnlessRebuild ==
    [][last'.op = "build" =>
        LET i == last'.who IN
        /\ (Callable(its[i].predict_fn) /\ ~last'.rebuild) =>
              /\ last'.outcome = "ok"
              /\ its'[i] = its[i]
              /\ model' = model
              /\ last'.assigns = 0
        /\ (last'.rebuild /\ last'.outcome = "ok") =>
              /\ Callable(its'[i].predict_fn)
              /\ its'[i].predict_fn.id \notin HeldIds
              /\ last'.assigns = 1
        /\ last'.assigns <= 1]_vars

\* a no-op build on the interpreter whose function an earlier rebuild replaced
C1_Witness ==
    /\ last.op = "build" /\ last.who = "a" /\ ~last.rebuild
    /\ last.outcome = "ok" /\ last.assigns = 0
    /\ its["b"].kind = "none"
    /\ Callable(its["a"].predict_fn) /\ its["a"].predict_fn.id = 2

\* C5 as stated: every InputGradientInterpreter build call with an
\* unsupported gradient_of fails with an assertion error, whether predict_fn
\* is unset or cached and whatever the value of rebuild.
C5_Original ==
    (last.op = "build" /\ its[last.who].kind = "IG" /\ last.opt = "foo")
        => last.outcome = "AssertionError"

\* C5 amended: an InputGradientInterpreter build call with an unsupported
\* gradient_of fails with an assertion error and changes nothing whenever it
\* reaches the build branch (predict_fn unset, or rebuild true) or finds a
\* non-callable predict_fn; made while predict_fn is cached and callable with
\* rebuild false it returns normally without validating gradient_of and
\* changes nothing; no function built with an unsupported gradient_of is
\* ever installed.
C5_UnsupportedFailsWhenBuilding ==
    [][(last'.op = "build" /\ its[last'.who].kind = "IG" /\ last'.opt = "foo") =>
        LET i == last'.who IN
        /\ its' = its /\ model' = model /\ last'.assigns = 0
        /\ last'.outcome =
              IF Callable(its[i].predict_fn) /\ ~last'.rebuild
              THEN "ok" ELSE "AssertionError"
        /\ \A j \in Interps : its'[j].predict_fn.opt # "foo"]_vars

\* a rebuild with an unsupported gradient_of fails on a cached function
C5_Witness ==
    /\ last.op = "build" /\ its[last.who].kind = "IG" /\ last.opt = "foo"
    /\ last.rebuild /\ last.outcome = "AssertionError"
    /\ Callable(its[last.who].predict_fn)

C8_HooksReleased ==
    [][(last'.op = "call" /\ last'.opt = "IL") => hooks' = hooks]_vars

\* C9: if predict_fn holds a non-null value that is not callable, every
\* build call fails with an assertion error and leaves predict_fn, the
\* stored device and the model's mode and sublayer flags unchanged.
C9_CorruptedStateFails ==
    [][(last'.op = "build" /\ its[last'.who].predict_fn = NotCallable) =>
        /\ last'.outcome = "AssertionError"
        /\ its' = its
        /\ model' = model
        /\ place' = place]_vars

\* a rebuild request has failed on a non-callable predict_fn
C9_Witness ==
    /\ last.op = "build" /\ last.rebuild /\ last.opt \in {"logit", "bn"}
    /\ last.outcome = "AssertionError"
    /\ its[last.who].predict_fn = NotCallable

\* C10: for every accepted device string and boolean flag, the stored
\* device is the requested device if the flag is true and the requested
\* device is a gpu device, and "cpu" otherwise; a stored gpu device was
\* requested as that gpu device.
C10_FlagPrecedence ==
    (last.op = "construct" /\ last.outcome = "ok" /\ last.flag \in {"True", "False"})
        => /\ its[last.who].device =
                 IF last.flag = "True" /\ Prefix3(last.dev) = GPU
                 THEN last.dev ELSE CPU
           /\ Prefix3(its[last.who].device) = GPU => Prefix3(last.dev) = GPU

\* the false flag has downgraded a requested gpu device
C10_Witness ==
    /\ last.op = "construct" /\ last.outcome = "ok"
    /\ last.flag = "False" /\ last.dev = GPU0
    /\ its[last.who].device = CPU

\* C11: construction fails with an assertion error whenever the first three
\* characters of the device string are neither "cpu" nor "gpu", whatever the
\* legacy flag (also when the flag would force "cpu"), and then no
\* interpreter state is set.
C11_InvalidDeviceFails ==
    (last.op = "construct" /\ Prefix3(last.dev) \notin {CPU, GPU})
        => (last.outcome = "AssertionError" /\ its[last.who] = NoInterp)

\* an invalid device has failed although the flag would have forced "cpu"
C11_Witness ==
    /\ last.op = "construct" /\ last.dev = TPU /\ last.flag = "False"
    /\ last.outcome = "AssertionError"
    /\ its[last.who] = NoInterp

\* C12: a call of the predict function built by InputGradientInterpreter
\* whose data does not have rank 4, or whose labels are not None and differ
\* in length from the batch, fails with an assertion error before the
\* forward pass is invoked and before a gradient is computed.
C12_BadArgumentsFailFirst ==
    (/\ last.op = "call" /\ last.opt = "IG"
     /\ \/ last.args.data.rank # 4
        \/ /\ last.args.labels.type # "None"
           /\ last.args.labels.len # last.args.data.bsz)
        => (last.outcome = "AssertionError" /\ last.fwd = 0 /\ last.bwd = 0)

\* a rank-4 batch with one label too few has been rejected
C12_Witness ==
    /\ last.op = "call" /\ last.opt = "IG"
    /\ last.args.data.rank = 4
    /\ last.args.labels.type = "list"
    /\ last.args.labels.len # last.args.data.bsz
    /\ last.outcome = "AssertionError" /\ last.fwd = 0

\* C13: two successive calls of the predict function built by
\* InputGradientInterpreter, on the same data and labels, return identical
\* gradients and labels: the result does not depend on the earlier call.
C13_SuccessiveCallsAgree ==
    [][(/\ last.op = "call" /\ last.opt = "IG" /\ last.outcome = "ok"
        /\ last'.op = "call" /\ last'.opt = "IG" /\ last'.outcome = "ok"
        /\ last'.who = last.who
        /\ last'.args = last.args)
           => last'.ret = last.ret]_vars

\* a second call on the same arguments has returned, after another
\* interpreter has put the shared model in eval mode
C13_Witness ==
    /\ last.op = "call" /\ last.opt = "IG" /\ last.outcome = "ok"
    /\ last.flag = "again"
    /\ last.args.labels.type = "list"
    /\ ~model.training

\* C21: the stored device of a constructed interpreter changes only in a
\* build call that builds (predict_fn unset or rebuild=True), and only from
\* a gpu device to "cpu" on a runtime without cuda; such a build returns
\* and places computation on "cpu"; calls of a predict function and build
\* calls that do not build leave every stored device as it is.
C21_DeviceChangesOnlyByFallback ==
    [][/\ \A i \in Interps :
            (its[i].kind # "none" /\ its'[i].device # its[i].device)
               => (/\ last'.op = "build" /\ last'.who = i
                   /\ NeedsBuild(its[i].predict_fn, last'.rebuild)
                   /\ ~cuda
                   /\ Prefix3(its[i].device) = GPU
                   /\ its'[i].device = CPU)
       /\ (/\ last'.op = "build" /\ ~cuda
           /\ Prefix3(its[last'.who].device) = GPU
           /\ its[last'.who].predict_fn # NotCallable
           /\ NeedsBuild(its[last'.who].predict_fn, last'.rebuild)
           /\ OptionAccepted(its[last'.who].kind, last'.opt))
               => (/\ last'.outcome = "ok"
                   /\ its'[last'.who].device = CPU
                   /\ place' = CPU)
       /\ (\/ last'.op = "call"
           \/ /\ last'.op = "build"
              /\ ~NeedsBuild(its[last'.who].predict_fn, last'.rebuild))
               => \A i \in Interps : its'[i].device = its[i].device]_vars

\* a rebuild has corrected the stored device gpu:0 of an interpreter and
\* returned, on a runtime without cuda
C21_Witness ==
    /\ ~cuda /\ last.op = "build" /\ last.outcome = "ok"
    /\ last.dev = GPU0
    /\ its[last.who].device = CPU
    /\ place = CPU

\* C22: whenever the predict function of an InputGradientInterpreter is
\* called, the model is in train mode.
C22_TrainModeAtCall ==
    (last.op = "call" /\ last.opt = "IG") => model.training

\* the device names the documentation of the constructor lists: "cpu", or
\* "gpu:" followed by a device index
IsDeviceName(d) ==
    \/ d = CPU
    \/ /\ Len(d) > 4
       /\ SubSeq(d, 1, 4) = <<"g", "p", "u", ":">>
       /\ \A k \in 5..Len(d) :
             d[k] \in {"0", "1", "2", "3", "4", "5", "6", "7", "8", "9"}

\* C15: the device stored by a constructed interpreter is always "cpu" or
\* "gpu:N" for a device index N.
C15_StoredDeviceIsDeviceName ==
    \A i \in Interps : its[i].kind # "none" => IsDeviceName(its[i].device)

\* the step installs a predict function built by
\* InputGradientInterpreter._build_predict_fn or by _paddle_prepare
InstallsGradientFn ==
    \/ /\ last'.op = "build" /\ last'.assigns = 1
       /\ its'[last'.who].kind = "IG"
    \/ /\ last'.op = "interpret" /\ last'.assigns = 1

\* C16: right after a build that installs the predict function of
\* InputGradientInterpreter or of SmoothGradInterpreter the model is in
\* train mode, every sublayer whose class name contains "batchnorm"
\* (case-insensitive) uses global statistics, every sublayer whose class
\* name contains "dropout" has drop probability 0, and every other flag of
\* every sublayer is as it was.
C16_BuildNeutralizes ==
    [][InstallsGradientFn =>
        /\ model'.training
        /\ \A l \in LayerNames :
              /\ IF Contains(Lower(ClassName(l)), BATCHNORM)
                 THEN model'.layers[l].ugs
                 ELSE model'.layers[l].ugs = model.layers[l].ugs
              /\ IF Contains(Lower(ClassName(l)), DROPOUT)
                 THEN model'.layers[l].p = 0
                 ELSE model'.layers[l].p = model.layers[l].p]_vars

\* both builds have installed their function and the model is in train
\* mode with batchnorm and dropout neutralised
C16_Witness ==
    /\ Callable(its["a"].predict_fn) /\ its["a"].predict_fn.kind = "IG"
    /\ sg.paddle_prepared /\ Callable(sg.predict_fn)
    /\ last.op = "build" /\ last.who = "a" /\ last.assigns = 1
    /\ model.training
    /\ model.layers["bn"].ugs /\ model.layers["drop"].p = 0
    /\ ~model.layers["conv"].ugs

\* ------------------------------------------------------------------------
\* Properties of SmoothGradInterpreter
\* ------------------------------------------------------------------------
\* the labels fixed before the sampling loop of the current interpret call
FixedLabels ==
    Column(IF fr.supplied = NoLabels
           THEN [shape |-> "flat", v |-> [j \in DOMAIN fr.orig |-> Pred(fr.orig[j])]]
           ELSE fr.supplied)

\* every image of the current call has noise standard deviation zero
ZeroStd == \A j \in DOMAIN fr.orig : Stds(fr.orig, fr.na)[j] = 0

\* the gradient of the clean data with the fixed labels
CleanGradient == SGPredict(fr.orig, FixedLabels).gradients

\* g added k times to a zero accumulator
RECURSIVE SumCopies(_, _)
SumCopies(g, k) ==
    IF k = 0 THEN ZerosLike(g) ELSE AddBatch(SumCopies(g, k - 1), g)

\* C2: constructing a SmoothGradInterpreter completes without raising;
\* afterwards predict_fn is unset, paddle_prepared is false, and use_cuda is
\* false whenever the runtime reports no accelerator support.
C2_ConstructionCompletes ==
    last.op = "sg_construct" =>
        /\ last.outcome = "ok"
        /\ sg.made
        /\ sg.predict_fn = None
        /\ ~sg.paddle_prepared
        /\ (~cuda => sg.use_cuda = "False")

\* C3: every predict call of the sampling loop receives the labels fixed
\* before the loop: the supplied labels, or the labels predicted from the
\* unperturbed data when labels is None.
C3_LabelsFixed ==
    (fr.pc \in {"loop", "done", "raised"} /\ fr.calls >= 1)
        => (fr.passed = FixedLabels /\ fr.labels = FixedLabels)

\* a second round has passed labels that were predicted before the loop
C3_Witness ==
    /\ fr.pc = "loop" /\ fr.calls = 2 /\ fr.supplied = NoLabels
    /\ fr.pre = 1 /\ fr.na = 1 /\ Len(fr.orig) = 2
    /\ fr.passed = FixedLabels
    /\ fr.noised # fr.orig

\* C4: in every round the perturbed batch is the original data plus that
\* round's noise; the data batch and the standard deviations are those of
\* the unperturbed input in every round.
C4_NoiseNotCumulative ==
    (fr.pc \in {"loop", "done", "raised"} /\ fr.calls >= 1)
        => /\ fr.noised = AddBatch(fr.orig, fr.noise)
           /\ fr.data = fr.orig
           /\ fr.stds = Stds(fr.orig, fr.na)

\* a second round has drawn non-zero noise after a first non-zero draw
C4_Witness ==
    /\ fr.pc = "loop" /\ fr.calls = 2 /\ fr.i = 2
    /\ fr.noise[1] # <<0, 0>>
    /\ fr.noised = AddBatch(fr.orig, fr.noise)
    /\ fr.noised # fr.orig

\* C7 as stated: with zero noise standard deviation the returned batch is,
\* for every n_samples >= 1, the single gradient of the clean data with the
\* fixed labels.
C7_Original ==
    (fr.pc = "done" /\ ZeroStd) => fr.result = CleanGradient

\* C7 amended: with zero noise standard deviation every round's gradient is
\* the single gradient g of the clean data with the fixed labels, and the
\* returned batch is the float32 quotient by n_samples of the float32 sum of
\* n_samples copies of g; it equals g for n_samples = 1.
C7_ZeroNoiseAverage ==
    (fr.pc = "done" /\ ZeroStd)
        => /\ fr.grads = CleanGradient
           /\ fr.result = Average(SumCopies(CleanGradient, fr.n), fr.n)
           /\ (fr.n = 1 => fr.result = CleanGradient)

\* three zero-noise rounds have returned a batch that differs from g
C7_Witness ==
    /\ fr.pc = "done" /\ ZeroStd /\ fr.n = 3 /\ fr.calls = 3
    /\ fr.result # CleanGradient
    /\ fr.result = Average(SumCopies(CleanGradient, 3), 3)

\* C14: when the predict function raises in a sampling round, the interpret
\* call raises: no gradient batch is returned, no later round runs and no
\* image is displayed or saved. The only step of a call that has raised is
\* its return to the caller.
C14_RoundFailureAborts ==
    [][/\ (last'.op = "round" /\ last'.outcome = "Exception")
            => (fr'.pc = "raised" /\ fr'.result = <<>> /\ fr'.shown = 0)
       /\ (fr.pc = "raised")
            => (last'.op = "returned" /\ fr' = IdleFrame)]_vars

\* the second of three rounds has raised in a call with visual = True
C14_Witness ==
    /\ fr.pc = "raised" /\ fr.calls = 2 /\ fr.n = 3 /\ fr.visual
    /\ fr.shown = 0 /\ fr.result = <<>>

\* C17: an interpret call that completes has called the predict function
\* exactly n_samples times in the loop, one round after the other, and
\* exactly once before the loop if and only if the labels argument is None;
\* nothing is displayed or saved before the last round has ended.
C17_CallCount ==
    [][/\ (last'.op = "round")
            => (/\ fr.i = fr.calls /\ fr.calls < fr.n /\ fr.shown = 0
                /\ fr'.calls = fr.calls + 1
                /\ fr'.shown = 0
                /\ (last'.outcome = "ok" => fr'.i = fr'.calls))
       /\ (last'.op = "finish")
            => (/\ fr.calls = fr.n /\ fr.i = fr.n
                /\ fr.pre = (IF fr.supplied = NoLabels THEN 1 ELSE 0)
                /\ fr.shown = 0
                /\ fr'.calls = fr.calls /\ fr'.pre = fr.pre)]_vars

\* a call with labels = None and three samples has completed and shown
\* both images
C17_Witness ==
    /\ fr.pc = "done" /\ fr.supplied = NoLabels /\ fr.n = 3
    /\ fr.calls = 3 /\ fr.pre = 1 /\ fr.shown = 2

\* C18: once an interpret call has built the predict function, no later
\* interpret call on the instance builds again, switches the model's mode
\* or touches the sublayer flags, also after a call that raised.
C18_BuiltOnce ==
    [][sg.paddle_prepared
          => (/\ sg' = sg /\ model' = model /\ place' = place
              /\ nextId' = nextId)]_vars

\* an interpret call has reached its loop with the function built by an
\* earlier call, the call before it having raised
C18_Witness ==
    /\ last.op = "interpret" /\ last.flag = "after_raise"
    /\ last.assigns = 0 /\ fr.pc = "loop"
    /\ sg.paddle_prepared /\ sg.predict_fn = Closure(1, "SG", "probability")

\* C19: the accumulator is zero when the loop starts, also when the labels
\* were inferred by a call before the loop; every round adds the gradients
\* its own predict call returned; the value returned is the accumulator
\* after n_samples rounds divided by n_samples (float32 arithmetic).
C19_AverageOfRounds ==
    [][/\ (last'.op = "interpret" /\ fr'.pc = "loop")
            => fr'.total = ZerosLike(fr'.data)
       /\ (last'.op = "round" /\ last'.outcome = "ok")
            => (/\ fr'.grads = SGPredict(fr'.noised, fr'.passed).gradients
                /\ fr'.total = AddBatch(fr.total, fr'.grads))
       /\ (last'.op = "finish")
            => (/\ fr.calls = fr.n
                /\ fr'.result = Average(fr.total, fr.n))]_vars

\* a call that inferred the labels has returned a non-zero average of two
\* rounds
C19_Witness ==
    /\ fr.pc = "done" /\ fr.pre = 1 /\ fr.n = 2 /\ fr.calls = 2
    /\ Len(fr.result) = 2 /\ fr.result[1][1] > 0

\* C20: the gradient a sampling round returns for image j is the gradient
\* of the probability of labels[j] alone.
C20_OwnLabelOnly ==
    (last.op = "round" /\ last.outcome = "ok")
        => \A j \in DOMAIN fr.grads :
              fr.grads[j] = Jac(fr.noised[j], fr.labels.v[j])

====
